---------------------------- MODULE Spec2Model ----------------------------
(***************************************************************************)
(* A model of src/src/evaluation/evaluate_rag_pipeline.py: the dataset     *)
(* loop evaluate_dataframe, the row evaluator evaluate_row, the            *)
(* missing-modality handler handle_no_data and the aggregation of the      *)
(* per-modality grades.                                                    *)
(*                                                                         *)
(* The DataFrame created at line 96 is one object that .at mutates in      *)
(* place; `table` is that object and `scores_df` is the local name of      *)
(* evaluate_dataframe, which refers to the object ("df") or, after         *)
(* evaluate_row has returned None, to nothing ("None").                    *)
(*                                                                         *)
(* A cell holds what was assigned to it: None is read back as None, which  *)
(* is what the comparison `== None` of lines 125 and 127 relies on.        *)
(***************************************************************************)
EXTENDS Integers, Sequences, FiniteSets, TLC

\* Bounds of the model.
MaxExamples == 2
MaxGrade == 1

VARIABLES
    METRICS, IMAGE_METRICS, TEXT_METRICS, AGGREGATED_METRICS,
    input_df, evaluator,
    table, scores_df, index, metrics, results, position, result,
    output_file, calls, pc, error

vars == <<METRICS, IMAGE_METRICS, TEXT_METRICS, AGGREGATED_METRICS,
          input_df, evaluator, table, scores_df, index, metrics, results,
          position, result, output_file, calls, pc, error>>

-----------------------------------------------------------------------------
\* Values

\* Cells of the table.
None == [t |-> "None"]
NaN == [t |-> "NaN"]
IntCell(i) == [t |-> "int", i |-> i]
StrCell(s) == [t |-> "str", s |-> s]
FloatCell(num, den) == [t |-> "float", num |-> num, den |-> den]

\* The value of a list, as a set.
Range(s) == {s[k] : k \in 1..Len(s)}

\* The module-level lists as the module sets them.
InitialMETRICS == <<"Answer Correctness", "Answer Relevancy">>
InitialIMAGE_METRICS == <<"Image Faithfulness", "Image Context Relevancy">>
InitialTEXT_METRICS == <<"Text Faithfulness", "Text Context Relevancy">>
InitialAGGREGATED_METRICS == <<"Faithfulness", "Context Relevancy">>

\* f"{metric_name} grade", f"{metric_name} reason"
GradeColumn(metric_name) == metric_name \o " grade"
ReasonColumn(metric_name) == metric_name \o " reason"

\* Python truthiness of the context and image fields: None, "" and [] are
\* falsy.  The empty value stands for all three.
Truthy(v) == v # ""

-----------------------------------------------------------------------------
\* The DataFrame

EmptyDataFrame == <<>>

Rows(df) == DOMAIN df

Columns(df) == UNION {DOMAIN df[r] : r \in DOMAIN df}

\* scores_df.at[index, column] = value: sets the cell, adding the row and the
\* column when the table has none of that label.
AtPut(df, i, column, value) ==
    LET old == IF i \in DOMAIN df THEN df[i] ELSE <<>>
        new == [c \in (DOMAIN old) \cup {column} |->
                   IF c = column THEN value ELSE old[c]]
    IN  [r \in (DOMAIN df) \cup {i} |-> IF r = i THEN new ELSE df[r]]

\* scores_df.at[index, column] read: KeyError when the table has no such
\* column or row, NaN for a cell of an existing column that was never set.
AtGet(df, i, column) ==
    IF i \notin Rows(df) \/ column \notin Columns(df)
    THEN [ok |-> FALSE, error |-> "KeyError"]
    ELSE [ok |-> TRUE,
          value |-> IF column \in DOMAIN df[i] THEN df[i][column] ELSE NaN]

\* What a cell is in the JSON file: None and NaN are both written as null.
JsonCell(df, i, column) ==
    IF column \in DOMAIN df[i] /\ df[i][column] # None /\ df[i][column] # NaN
    THEN df[i][column]
    ELSE [t |-> "null"]

\* The label of the k-th row of the table (rows are kept in label order: the
\* loop adds them in input order).
RowLabel(df, k) ==
    CHOOSE r \in Rows(df) : Cardinality({q \in Rows(df) : q < r}) = k - 1

\* scores_df.to_json(output_file, orient="records"): the rows in order, each
\* a record that has every column of the table.
to_json(df) ==
    [k \in 1..Cardinality(Rows(df)) |->
        [c \in Columns(df) |-> JsonCell(df, RowLabel(df, k), c)]]

-----------------------------------------------------------------------------
\* The Evaluator and its results

\* A result is a structured value, a string, or a deferred value that
\* invoke() resolves.  ListValue is what json.loads gives for a JSON array:
\* a value that has no get().
DictResult(d) == [kind |-> "dict", d |-> d]
StrResult(text) == [kind |-> "str", text |-> text]
DeferredResult(inner) == [kind |-> "deferred", inner |-> inner]
ListValue == [kind |-> "list"]
Unbound == [kind |-> "unbound"]

WellFormed(grade) == DictResult([grade |-> grade, reason |-> "judged"])

\* json.loads on the texts the model's evaluators produce.
json_loads(text) ==
    CASE text = "{\"grade\": 1, \"reason\": \"judged\"}" ->
            [ok |-> TRUE, value |-> WellFormed(1)]
      [] text = "{}" -> [ok |-> TRUE, value |-> DictResult(<<>>)]
      [] text = "[1, 2]" -> [ok |-> TRUE, value |-> ListValue]
      [] OTHER -> [ok |-> FALSE, value |-> Unbound]

\* The results an evaluator may give for its one metric that is not a plain
\* grade/reason object.
OddResults ==
    { DictResult(<<>>),
      DictResult([grade |-> 1]),
      DictResult([reason |-> "judged"]),
      StrResult("not json"),
      StrResult("{}"),
      StrResult("{\"grade\": 1, \"reason\": \"judged\"}"),
      StrResult("[1, 2]"),
      DeferredResult(WellFormed(1)),
      DeferredResult(StrResult("not json")) }

\* The metrics an evaluator may give its odd result for: one of the base
\* metrics, one of the image metrics and one of the text metrics.
OddMetrics == {"Answer Relevancy", "Image Faithfulness", "Text Context Relevancy"}

\* An evaluator grades the image metrics image_grade and the text metrics
\* text_grade, and answers odd for odd_metric ("" when it has none).  The
\* evaluators that have an odd result give one grade to both modalities.
Evaluators ==
    [image_grade : 0..MaxGrade, text_grade : 0..MaxGrade,
     odd_metric : {""}, odd : {Unbound}]
    \cup
    {ev \in [image_grade : 0..MaxGrade, text_grade : 0..MaxGrade,
             odd_metric : OddMetrics, odd : OddResults] :
        ev.image_grade = ev.text_grade}

NormalGrade(ev, metric_name) ==
    IF metric_name \in Range(InitialIMAGE_METRICS) THEN ev.image_grade
    ELSE IF metric_name \in Range(InitialTEXT_METRICS) THEN ev.text_grade
    ELSE MaxGrade

\* evaluator.evaluate(metrics=...), when it returns: one item per requested
\* metric, in the order of the request.
evaluate(ev, requested) ==
    [k \in 1..Len(requested) |->
        [metric_name |-> requested[k],
         result |-> IF requested[k] = ev.odd_metric THEN ev.odd
                    ELSE WellFormed(NormalGrade(ev, requested[k]))]]

\* The examples: only the presence of context and image decides anything;
\* the other fields are handed to the evaluator unread.
Examples == [context : {"", "Paris is the capital of France."},
             image : {"", "iVBORw0KGgo"}]

Datasets == UNION {[1..n -> Examples] : n \in 0..MaxExamples}

-----------------------------------------------------------------------------
\* evaluate_row, lines 49-63: one item of results.items()

\* lines 50-51: a result that has invoke is replaced by what invoke({}) gives.
Resolve(r) == IF r.kind = "deferred" THEN r.inner ELSE r

\* lines 53-57: a string is parsed; a string that does not parse becomes the
\* grade 0 with the reason "Invalid format".
Parse(r) ==
    IF r.kind = "str"
    THEN IF json_loads(r.text).ok
         THEN json_loads(r.text).value
         ELSE DictResult([grade |-> 0, reason |-> "Invalid format"])
    ELSE r

\* result.get(key, default)
Get(d, key, default) == IF key \in DOMAIN d THEN d[key] ELSE default

\* lines 50-60: the grade and the reason of one result; get() of a value
\* that is no dict raises AttributeError.
Normalise(r) ==
    LET parsed == Parse(Resolve(r))
    IN  IF parsed.kind # "dict"
        THEN [error |-> "AttributeError: get", result |-> parsed,
              grade |-> 0, reason |-> ""]
        ELSE [error |-> "", result |-> parsed,
              grade |-> Get(parsed.d, "grade", 0),
              reason |-> Get(parsed.d, "reason", "No evaluation provided")]

\* A variant of WriteMetric that leaves the reason out.
WriteMetricGradeOnly(df, i, metric_name, grade, reason) ==
    AtPut(df, i, GradeColumn(metric_name), IntCell(grade))

\* lines 62-63
WriteMetric(df, i, metric_name, grade, reason) ==
    AtPut(AtPut(df, i, GradeColumn(metric_name), IntCell(grade)),
          i, ReasonColumn(metric_name), StrCell(reason))

-----------------------------------------------------------------------------
\* handle_no_data, lines 79-83

\* A variant of handle_no_data that grades the missing modality 0.
handle_no_data_zero(i, data_type, df) ==
    LET d1 == AtPut(df, i, GradeColumn(data_type \o " Faithfulness"), IntCell(0))
        d2 == AtPut(d1, i, ReasonColumn(data_type \o " Faithfulness"),
                    StrCell("No " \o data_type \o " provided"))
        d3 == AtPut(d2, i, GradeColumn(data_type \o " Context Relevancy"),
                    IntCell(0))
    IN  AtPut(d3, i, ReasonColumn(data_type \o " Context Relevancy"),
              StrCell("No " \o data_type \o " provided"))

handle_no_data(i, data_type, df) ==
    LET d1 == AtPut(df, i, GradeColumn(data_type \o " Faithfulness"), None)
        d2 == AtPut(d1, i, ReasonColumn(data_type \o " Faithfulness"),
                    StrCell("No " \o data_type \o " provided"))
        d3 == AtPut(d2, i, GradeColumn(data_type \o " Context Relevancy"), None)
    IN  AtPut(d3, i, ReasonColumn(data_type \o " Context Relevancy"),
              StrCell("No " \o data_type \o " provided"))

-----------------------------------------------------------------------------
\* evaluate_dataframe, lines 103-114: the metrics of one example

\* line 103: a falsy image becomes the empty list.
ImageOf(row) == IF Truthy(row.image) THEN row.image ELSE ""

\* lines 107-108 and 111-112: the data types handle_no_data is called for,
\* in the order of the calls.
MissingDataTypes(image, context) ==
    (IF ~Truthy(image) THEN <<"Image">> ELSE <<>>)
    \o (IF ~Truthy(context) THEN <<"Text">> ELSE <<>>)

\* A variant of BuildMetrics without the else of line 109: the image metrics
\* are added whether or not there is an image.
BuildMetricsNoElse(image, context) ==
    LET copy == METRICS
        m1 == copy \o IMAGE_METRICS
        m2 == IF ~Truthy(context) THEN m1 ELSE m1 \o TEXT_METRICS
    IN  [metrics |-> m2, METRICS |-> METRICS]

\* A variant of BuildMetrics without the copy of line 106: metrics is the
\* module's list itself, which the extend calls then grow.
BuildMetricsAlias(image, context) ==
    LET m1 == IF ~Truthy(image) THEN METRICS ELSE METRICS \o IMAGE_METRICS
        m2 == IF ~Truthy(context) THEN m1 ELSE m1 \o TEXT_METRICS
    IN  [metrics |-> m2, METRICS |-> m2]

\* lines 106-114: metrics is a copy of METRICS, extended by the metrics of
\* the modalities that are present; the module's METRICS is left as it was.
BuildMetrics(image, context) ==
    LET copy == METRICS
        m1 == IF ~Truthy(image) THEN copy ELSE copy \o IMAGE_METRICS
        m2 == IF ~Truthy(context) THEN m1 ELSE m1 \o TEXT_METRICS
    IN  [metrics |-> m2, METRICS |-> METRICS]

\* A variant of HandleAll that sets the four columns of the missing modality
\* in every row of the table (scores_df[column] = ...) instead of the cells
\* of row i.
RECURSIVE HandleAllRows(_, _, _)
HandleAllRows(i, data_types, df) ==
    IF data_types = <<>> THEN df
    ELSE LET one == handle_no_data(i, Head(data_types), df)
             set == {GradeColumn(Head(data_types) \o " Faithfulness"),
                     ReasonColumn(Head(data_types) \o " Faithfulness"),
                     GradeColumn(Head(data_types) \o " Context Relevancy"),
                     ReasonColumn(Head(data_types) \o " Context Relevancy")}
             whole == [r \in Rows(one) |->
                          [c \in (DOMAIN one[r]) \cup set |->
                              IF c \in set THEN one[i][c] ELSE one[r][c]]]
         IN  HandleAllRows(i, Tail(data_types), whole)

RECURSIVE HandleAll(_, _, _)
HandleAll(i, data_types, df) ==
    IF data_types = <<>> THEN df
    ELSE HandleAll(i, Tail(data_types), handle_no_data(i, Head(data_types), df))

-----------------------------------------------------------------------------
\* evaluate_dataframe, lines 118-131: the aggregated grades of one row

RECURSIVE Sum(_)
Sum(values) == IF values = <<>> THEN 0 ELSE Head(values) + Sum(Tail(values))

\* df_tmp[metric].mean()
mean(values) == FloatCell(Sum(values), Len(values))

\* A variant of OrMinusOne that tests the grade for falsiness, so that the
\* grade 0 is replaced as well.
OrMinusOneFalsy(cell) ==
    IF cell.t = "None" \/ (cell.t = "int" /\ cell.i = 0) THEN IntCell(-1)
    ELSE cell

\* lines 125-128: None is replaced by -1.
OrMinusOne(cell) == IF cell.t = "None" THEN IntCell(-1) ELSE cell

\* lines 119-131 for one metric of AGGREGATED_METRICS; int() of NaN raises
\* ValueError.
AggregateMetric(df, i, metric) ==
    LET img == AtGet(df, i, GradeColumn("Image " \o metric))
        text == AtGet(df, i, GradeColumn("Text " \o metric))
    IN  IF ~img.ok THEN [error |-> img.error, df |-> df]
        ELSE IF ~text.ok THEN [error |-> text.error, df |-> df]
        ELSE LET img_metric == OrMinusOne(img.value)
                 text_metric == OrMinusOne(text.value)
             IN  IF img_metric.t # "int" \/ text_metric.t # "int"
                 THEN [error |-> "ValueError", df |-> df]
                 ELSE [error |-> "",
                       df |-> AtPut(df, i, GradeColumn(metric),
                                    mean(<<img_metric.i, text_metric.i>>))]

\* lines 118-131: the loop over AGGREGATED_METRICS, up to the first error.
RECURSIVE AggregateAll(_, _, _)
AggregateAll(df, i, todo) ==
    IF todo = <<>> THEN [error |-> "", df |-> df]
    ELSE LET one == AggregateMetric(df, i, Head(todo))
         IN  IF one.error # "" THEN one
             ELSE AggregateAll(one.df, i, Tail(todo))

-----------------------------------------------------------------------------
\* The run of evaluate_dataframe(input_df, evaluator, output_file)

Call(op, i, arg) == [op |-> op, index |-> i, arg |-> arg]

RECURSIVE NoDataCalls(_, _)
NoDataCalls(i, data_types) ==
    IF data_types = <<>> THEN <<>>
    ELSE <<Call("handle_no_data", i, <<Head(data_types)>>)>>
         \o NoDataCalls(i, Tail(data_types))

Init ==
    /\ METRICS = InitialMETRICS
    /\ IMAGE_METRICS = InitialIMAGE_METRICS
    /\ TEXT_METRICS = InitialTEXT_METRICS
    /\ AGGREGATED_METRICS = InitialAGGREGATED_METRICS
    /\ input_df \in Datasets
    /\ evaluator \in Evaluators
    /\ table = EmptyDataFrame
    /\ scores_df = "df"
    /\ index = 0
    /\ metrics = <<>>
    /\ results = <<>>
    /\ position = 0
    /\ result = Unbound
    /\ output_file = [exists |-> FALSE, records |-> <<>>]
    /\ calls = <<>>
    /\ pc = "for"
    /\ error = ""

\* lines 97-114: the next example is read, handle_no_data is called for each
\* missing modality and the metrics of the example are built.
SelectMetrics ==
    /\ pc = "for"
    /\ index < Len(input_df)
    /\ LET row == input_df[index + 1]
           image == ImageOf(row)
           missing == MissingDataTypes(image, row.context)
           built == BuildMetrics(image, row.context)
       IN  /\ table' = HandleAll(index, missing, table)
           /\ calls' = calls \o NoDataCalls(index, missing)
           /\ metrics' = built.metrics
           /\ METRICS' = built.METRICS
    /\ pc' = "evaluate_row"
    /\ UNCHANGED <<IMAGE_METRICS, TEXT_METRICS, AGGREGATED_METRICS, input_df,
                   evaluator, scores_df, index, results, position, result,
                   output_file, error>>

\* lines 36-45 and 116: evaluator.evaluate raises; evaluate_row returns None,
\* which evaluate_dataframe assigns to scores_df.
EvaluatorRaises ==
    /\ pc = "evaluate_row"
    /\ calls' = Append(calls, Call("evaluate", index, metrics))
    /\ scores_df' = "None"
    /\ pc' = "aggregate"
    /\ UNCHANGED <<METRICS, IMAGE_METRICS, TEXT_METRICS, AGGREGATED_METRICS,
                   input_df, evaluator, table, index, metrics, results,
                   position, result, output_file, error>>

\* lines 36-42: evaluator.evaluate returns the results.
EvaluatorReturns ==
    /\ pc = "evaluate_row"
    /\ calls' = Append(calls, Call("evaluate", index, metrics))
    /\ results' = evaluate(evaluator, metrics)
    /\ position' = 1
    /\ pc' = "items"
    /\ UNCHANGED <<METRICS, IMAGE_METRICS, TEXT_METRICS, AGGREGATED_METRICS,
                   input_df, evaluator, table, scores_df, index, metrics,
                   result, output_file, error>>

\* lines 49-63: one item of the results is normalised and written.
ItemWritten ==
    /\ pc = "items"
    /\ position <= Len(results)
    /\ LET item == results[position]
           n == Normalise(item.result)
       IN  /\ n.error = ""
           /\ result' = n.result
           /\ table' = WriteMetric(table, index, item.metric_name,
                                   n.grade, n.reason)
    /\ position' = position + 1
    /\ UNCHANGED <<METRICS, IMAGE_METRICS, TEXT_METRICS, AGGREGATED_METRICS,
                   input_df, evaluator, scores_df, index, metrics, results,
                   output_file, calls, pc, error>>

\* lines 59-60: get() raises on a result that is no dict; nothing catches it.
ItemRaises ==
    /\ pc = "items"
    /\ position <= Len(results)
    /\ LET n == Normalise(results[position].result)
       IN  /\ n.error # ""
           /\ result' = n.result
           /\ error' = n.error
    /\ pc' = "raised"
    /\ UNCHANGED <<METRICS, IMAGE_METRICS, TEXT_METRICS, AGGREGATED_METRICS,
                   input_df, evaluator, table, scores_df, index, metrics,
                   results, position, output_file, calls>>

\* lines 66 and 116: evaluate_row returns the table it was given.
ReturnScores ==
    /\ pc = "items"
    /\ position > Len(results)
    /\ scores_df' = "df"
    /\ pc' = "aggregate"
    /\ UNCHANGED <<METRICS, IMAGE_METRICS, TEXT_METRICS, AGGREGATED_METRICS,
                   input_df, evaluator, table, index, metrics, results,
                   position, result, output_file, calls, error>>

\* lines 118-131: the aggregated grades of the row are written.
Aggregate ==
    /\ pc = "aggregate"
    /\ scores_df = "df"
    /\ LET agg == AggregateAll(table, index, AGGREGATED_METRICS)
       IN  /\ agg.error = ""
           /\ table' = agg.df
    /\ pc' = "to_json"
    /\ UNCHANGED <<METRICS, IMAGE_METRICS, TEXT_METRICS, AGGREGATED_METRICS,
                   input_df, evaluator, scores_df, index, metrics, results,
                   position, result, output_file, calls, error>>

\* line 119 with scores_df None: None has no attribute at; nothing catches
\* the AttributeError.
AggregateOnNone ==
    /\ pc = "aggregate"
    /\ scores_df = "None"
    /\ error' = "AttributeError: at"
    /\ pc' = "raised"
    /\ UNCHANGED <<METRICS, IMAGE_METRICS, TEXT_METRICS, AGGREGATED_METRICS,
                   input_df, evaluator, table, scores_df, index, metrics,
                   results, position, result, output_file, calls>>

\* line 133: the whole table is written over the output file; the loop goes
\* to the next example.
Save ==
    /\ pc = "to_json"
    /\ output_file' = [exists |-> TRUE, records |-> to_json(table)]
    /\ index' = index + 1
    /\ pc' = "for"
    /\ UNCHANGED <<METRICS, IMAGE_METRICS, TEXT_METRICS, AGGREGATED_METRICS,
                   input_df, evaluator, table, scores_df, metrics, results,
                   position, result, calls, error>>

\* line 134: the loop is over and scores_df is returned.
Return ==
    /\ pc = "for"
    /\ index = Len(input_df)
    /\ pc' = "return"
    /\ UNCHANGED <<METRICS, IMAGE_METRICS, TEXT_METRICS, AGGREGATED_METRICS,
                   input_df, evaluator, table, scores_df, index, metrics,
                   results, position, result, output_file, calls, error>>

Next ==
    \/ SelectMetrics
    \/ EvaluatorRaises
    \/ EvaluatorReturns
    \/ ItemWritten
    \/ ItemRaises
    \/ ReturnScores
    \/ Aggregate
    \/ AggregateOnNone
    \/ Save
    \/ Return

Spec == Init /\ [][Next]_vars

-----------------------------------------------------------------------------
\* Properties

NoDuplicates(s) == \A a, b \in 1..Len(s) : s[a] = s[b] => a = b

AllMetrics == Range(InitialMETRICS) \cup Range(InitialIMAGE_METRICS)
              \cup Range(InitialTEXT_METRICS)

HasImage(i) == input_df[i + 1].image # ""
HasContext(i) == input_df[i + 1].context # ""

\* The metrics of example i, from its image and context alone.
MetricsOf(i) ==
    InitialMETRICS
    \o (IF HasImage(i) THEN InitialIMAGE_METRICS ELSE <<>>)
    \o (IF HasContext(i) THEN InitialTEXT_METRICS ELSE <<>>)

\* The cell of row i under a column; NaN when nothing was written there.
CellOf(i, column) ==
    IF i \in Rows(table) /\ column \in DOMAIN table[i] THEN table[i][column]
    ELSE NaN

IsSet(i, column) == i \in Rows(table) /\ column \in DOMAIN table[i]

\* Example i has been started: the loop has read it.
Started(i) == i < index \/ (i = index /\ pc # "for")

\* Example i has been processed to the end of the loop body's aggregation.
Aggregated(i) == i < index \/ (i = index /\ pc = "to_json")

\* The Evaluator call of the example in hand raised.
RowFailed == scores_df = "None"

CallsOf(op, i) == {k \in 1..Len(calls) : calls[k].op = op /\ calls[k].index = i}

\* C1: when the Evaluator call raises on example i, no grade or reason of a
\* requested metric is written in row i, the aggregated grades of row i stay
\* unset, and the run goes on to example i+1 instead of ending in an error.
C1_RowFailureIsolation ==
    RowFailed =>
        /\ \A m \in Range(metrics) :
               ~IsSet(index, GradeColumn(m)) /\ ~IsSet(index, ReasonColumn(m))
        /\ \A c \in Range(InitialAGGREGATED_METRICS) :
               ~IsSet(index, GradeColumn(c))
        /\ pc # "raised"

\* C2: no error ends the dataset run: whatever the Evaluator does, the run
\* never ends by an exception that nothing catches.
C2_NoUncaughtError == pc # "raised" /\ error = ""

\* The examples whose processing has ended: those before index, and the
\* example in hand once its Evaluator call has raised and the run is over.
ProcessedCount == IF RowFailed /\ pc = "raised" THEN index + 1 ELSE index

\* C3: whenever N examples have been processed (with success or with a
\* row-level failure) and the next is not started, the output file has been
\* written and holds N records, the whole of the current table.
C3_Checkpoint ==
    pc \in {"for", "return", "raised"} =>
        /\ Len(output_file.records) = ProcessedCount
        /\ ProcessedCount > 0 => output_file.exists
        /\ pc \in {"for", "return"} /\ output_file.exists =>
               output_file.records = to_json(table)

\* C4: the metrics of every Evaluator call are the two base metrics, plus the
\* two image metrics exactly when the example has an image, plus the two text
\* metrics exactly when it has a context; an example gets one call at most.
C4_MetricSelection ==
    /\ \A k \in 1..Len(calls) :
           calls[k].op = "evaluate" =>
               Range(calls[k].arg) =
                   Range(InitialMETRICS)
                   \cup (IF HasImage(calls[k].index)
                         THEN Range(InitialIMAGE_METRICS) ELSE {})
                   \cup (IF HasContext(calls[k].index)
                         THEN Range(InitialTEXT_METRICS) ELSE {})
    /\ \A i \in 0..(Len(input_df) - 1) : Cardinality(CallsOf("evaluate", i)) <= 1

\* The Evaluator has been called for an example that has an image and no
\* context, and for one that has a context and no image.
C4_Witness ==
    /\ \E k \in 1..Len(calls) :
           /\ calls[k].op = "evaluate"
           /\ HasImage(calls[k].index) /\ ~HasContext(calls[k].index)
    /\ \E k \in 1..Len(calls) :
           /\ calls[k].op = "evaluate"
           /\ ~HasImage(calls[k].index) /\ HasContext(calls[k].index)

\* -1 for a grade that is absent, the grade otherwise.
GradeOrSentinel(cell) == IF cell.t = "int" THEN cell.i ELSE -1

Populated(i) ==
    {m \in AllMetrics : /\ CellOf(i, GradeColumn(m)).t = "int"
                        /\ CellOf(i, ReasonColumn(m)).t = "str"}

AggregatesPopulated(i) ==
    \A c \in Range(InitialAGGREGATED_METRICS) :
        CellOf(i, GradeColumn(c)).t = "float"

ExpectedPair(r) ==
    LET v == IF r.kind = "deferred" THEN r.inner ELSE r
        p == IF v.kind = "str" THEN json_loads(v.text).value ELSE v
        d == IF p.kind = "dict" THEN p.d ELSE <<>>
    IN  IF v.kind = "str" /\ ~json_loads(v.text).ok
        THEN [grade |-> 0, reason |-> "Invalid format"]
        ELSE [grade |-> IF "grade" \in DOMAIN d THEN d.grade ELSE 0,
              reason |-> IF "reason" \in DOMAIN d THEN d.reason
                         ELSE "No evaluation provided"]

\* C7: every result that the loop over the results has reached is written as
\* the pair the normalisation is to give, and a result of any shape leaves
\* the row going: the loop over the results never ends in an error.
C7_Normalisation ==
    /\ pc = "items" =>
           \A k \in 1..(position - 1) :
               LET e == ExpectedPair(results[k].result)
               IN  /\ CellOf(index, GradeColumn(results[k].metric_name))
                          = IntCell(e.grade)
                   /\ CellOf(index, ReasonColumn(results[k].metric_name))
                          = StrCell(e.reason)
    /\ ~(pc = "raised" /\ ~RowFailed)

\* The four cells of a missing modality in row i, as handle_no_data is to
\* leave them.
NoDataCells(i, data_type) ==
    /\ IsSet(i, GradeColumn(data_type \o " Faithfulness"))
    /\ IsSet(i, GradeColumn(data_type \o " Context Relevancy"))
    /\ CellOf(i, GradeColumn(data_type \o " Faithfulness")) = None
    /\ CellOf(i, GradeColumn(data_type \o " Context Relevancy")) = None
    /\ CellOf(i, ReasonColumn(data_type \o " Faithfulness"))
           = StrCell("No " \o data_type \o " provided")
    /\ CellOf(i, ReasonColumn(data_type \o " Context Relevancy"))
           = StrCell("No " \o data_type \o " provided")

\* The calls of handle_no_data for example i and one modality.
NoDataCallsOf(i, data_type) ==
    {k \in CallsOf("handle_no_data", i) : calls[k].arg = <<data_type>>}

\* C8: for every example that has been started and each modality it lacks,
\* handle_no_data has been called once, before the Evaluator call of the
\* example, and the two grades of that modality are absent (not 0) with the
\* reasons "No <modality> provided", up to the end of the example and after;
\* handle_no_data is not called for a modality the example has.
C8_MissingModality ==
    \A i \in 0..(Len(input_df) - 1) :
        Started(i) =>
            \A data_type \in {"Image", "Text"} :
                LET has == IF data_type = "Image" THEN HasImage(i)
                           ELSE HasContext(i)
                IN  IF has
                    THEN NoDataCallsOf(i, data_type) = {}
                    ELSE /\ Cardinality(NoDataCallsOf(i, data_type)) = 1
                         /\ \A k \in NoDataCallsOf(i, data_type) :
                                \A e \in CallsOf("evaluate", i) : k < e
                         /\ NoDataCells(i, data_type)

\* An example without an image has been evaluated and aggregated, and the
\* next example is in hand.
C8_Witness ==
    \E i \in 0..(Len(input_df) - 1) :
        /\ i < index
        /\ ~HasImage(i) /\ HasContext(i)
        /\ CallsOf("evaluate", i) # {}
        /\ NoDataCells(i, "Image")

\* C9: the examples are taken in input order, and every step leaves every row
\* but the row of the example in hand as it was, cell for cell; so the row of
\* a finished example never changes again.
C9_AppendOnly ==
    [][/\ index' \in {index, index + 1}
       /\ \A j \in Rows(table) \cup Rows(table') :
              j # index => j \in Rows(table) /\ j \in Rows(table')
                           /\ table'[j] = table[j]
       /\ \A j \in Rows(table') : j <= index]_vars

\* The second example is being written while the row of the first is in the
\* table.
C9_Witness ==
    /\ pc = "items" /\ index = 1 /\ position > 1
    /\ 0 \in Rows(table) /\ 1 \in Rows(table)
    /\ ~HasImage(1)

\* C10: the module-level lists never change, and the metrics built for an
\* example have no duplicates and are decided by the image and the context
\* of that example alone.
C10_NoCarryOver ==
    /\ METRICS = InitialMETRICS
    /\ IMAGE_METRICS = InitialIMAGE_METRICS
    /\ TEXT_METRICS = InitialTEXT_METRICS
    /\ AGGREGATED_METRICS = InitialAGGREGATED_METRICS
    /\ pc \in {"evaluate_row", "items", "aggregate", "to_json"} =>
           NoDuplicates(metrics) /\ metrics = MetricsOf(index)

\* The metrics of a second example are built after a first example that had
\* both modalities.
C10_Witness ==
    /\ pc = "evaluate_row" /\ index = 1
    /\ HasImage(0) /\ HasContext(0)
    /\ ~HasImage(1)

=============================================================================
